---- MODULE Spec2Model ----
(***************************************************************************)
(* Model of paper_finder.py: the polling loop that, once per check         *)
(* interval, loads the seen-state file, searches arXiv for every keyword   *)
(* group, mails a digest of the unseen recent papers, records the mailed   *)
(* ids for the group and saves the state file when some group changed.     *)
(*                                                                         *)
(* Time is counted in hours.  The arXiv API and the SMTP transport are the *)
(* environment: a search yields some of the published papers that match    *)
(* the query, newest first, and may raise after any number of them; a send *)
(* succeeds or fails.                                                      *)
(***************************************************************************)
EXTENDS Integers, Sequences, FiniteSets, TLC

VARIABLES
    KEYWORD_GROUPS,      \* configured group ids, in dict order (lines 17-28)
    mail_config,         \* TRUE iff all of sender, password, receiver, server, port are set
    file,                \* the state file paper_finder_state.json
    now,                 \* datetime.now(timezone.utc), in hours
    cycle,               \* number of cycles started
    pc,                  \* position of the main loop
    idx,                 \* position of the group loop in KEYWORD_GROUPS
    current_state,       \* dict group_id -> set of seen ids (line 181)
    state_file_existed,  \* second component of load_state's result (line 181)
    state_changed,       \* line 175 / 229
    search_window,       \* timedelta passed to the last search, in hours
    api_results,         \* records the API yielded to the last search, in order
    api_failed,          \* TRUE iff the last search raised inside its try block
    cutoff_date,         \* cutoff of the last search (line 104)
    new_papers,          \* result of the last search (line 205)
    loaded,              \* history: current_state as loaded at the start of this cycle
    writes,              \* history: number of save_state calls in this cycle
    saved,               \* history: "none", or how this cycle's save_state call ended
    batch,               \* history: group -> ids of the batch handed to send_email in this cycle
    result,              \* history: group -> "none" | "sent" | "failed" in this cycle
    delivered,           \* history: <<group, id>> pairs mailed successfully in earlier cycles
    prev,                \* history: summary of the cycle before this one
    ioFailed,            \* history: some read or write of the state file has failed
    abandoned,           \* history: this cycle was left through the handler of line 243
    loads,               \* history: number of load_state calls in this cycle
    file_at_start,       \* history: the state file when this cycle started
    initial_file         \* history: the state file when the process started

vars == <<KEYWORD_GROUPS, mail_config, file, now, cycle, pc, idx, current_state,
          state_file_existed, state_changed, search_window, api_results,
          api_failed, cutoff_date, new_papers, loaded, writes, saved, batch, result,
          delivered, prev, ioFailed, abandoned, loads, file_at_start, initial_file>>

----------------------------------------------------------------------------
(* Bounds of the model *)

MaxCycles == 3

MaxElapsed == 1

----------------------------------------------------------------------------
(* Program constants *)

CHECK_INTERVAL_HOURS == 24

FIRST_RUN_DAYS == 7

HOURS_PER_DAY == 24

MAX_RESULTS == 100

----------------------------------------------------------------------------
(* Configuration and environment data *)

\* keywords of each group (KEYWORD_GROUPS[group_id]["keywords"])
GroupKeywords(group_id) ==
    IF group_id = "group_1" THEN <<"diffusion", "sampling">> ELSE <<"quantum">>

Configs == { <<>>, <<"group_1", "group_2">> }

\* The papers arXiv knows.  entry_id is the URL split at "/"; text is the set
\* of phrases the paper contains; published/updated are UTC hours.
Catalog ==
    { [entry_id |-> <<"http:", "", "arxiv.org", "abs", "A">>,
       published |-> -200, updated |-> -10, text |-> {"diffusion", "sampling"}],
      [entry_id |-> <<"http:", "", "arxiv.org", "abs", "B">>,
       published |-> -100, updated |-> -100, text |-> {"diffusion", "sampling", "quantum"}],
      [entry_id |-> <<"http:", "", "arxiv.org", "abs", "C">>,
       published |-> -24, updated |-> -24, text |-> {"diffusion", "sampling"}],
      [entry_id |-> <<"http:", "", "arxiv.org", "abs", "hep-th", "B">>,
       published |-> 30, updated |-> 30, text |-> {"quantum"}] }

\* Python's order on the id strings
Alphabet == <<"A", "B", "C">>

Rank(s) == CHOOSE i \in 1..Len(Alphabet) : Alphabet[i] = s

StrLess(a, b) == Rank(a) < Rank(b)

EmptyState == [g \in {} |-> {}]

AbsentFile == [kind |-> "absent", data |-> EmptyState]

CorruptFile == [kind |-> "corrupt", data |-> EmptyState]

ValidFile(d) == [kind |-> "valid", data |-> d]

\* State files the process may find when it starts
InitFiles ==
    { AbsentFile,
      CorruptFile,
      ValidFile([g \in {"group_1"} |-> <<"A", "B">>]),
      ValidFile([g \in {"group_1", "group_2", "group_old"} |->
                    IF g = "group_1" THEN <<"C", "B", "C">>
                    ELSE IF g = "group_2" THEN <<>> ELSE <<"C">>]) }

----------------------------------------------------------------------------
(* Helpers *)

Range(s) == { s[i] : i \in 1..Len(s) }

Min(a, b) == IF a < b THEN a ELSE b

\* dict.get(key, set())
Get(state, group_id) == IF group_id \in DOMAIN state THEN state[group_id] ELSE {}

\* an assignment into a fresh dict
PutFresh(state, group_id, value) == [g \in {group_id} |-> value]

\* state[key] = value
Put(state, group_id, value) ==
    [g \in DOMAIN state \cup {group_id} |-> IF g = group_id THEN value ELSE state[g]]

\* sorted(list(seen_set))
RECURSIVE SortedList(_)
SortedList(S) ==
    IF S = {} THEN <<>>
    ELSE LET m == CHOOSE x \in S : \A y \in S : ~StrLess(y, x)
         IN  <<m>> \o SortedList(S \ {m})

\* result.entry_id.split('/')[-1]
PaperId(r) == r.entry_id[Len(r.entry_id)]

PaperIds(papers) == { PaperId(papers[i]) : i \in 1..Len(papers) }

----------------------------------------------------------------------------
(* State store *)

\* a save that leaves out the groups without ids
SerializeNonEmpty(state) ==
    [g \in { h \in DOMAIN state : state[h] # {} } |-> SortedList(state[g])]

\* line 76: sets to sorted lists
Serialize(state) == [g \in DOMAIN state |-> SortedList(state[g])]

\* line 61: lists back to sets
Deserialize(data) == [g \in DOMAIN data |-> Range(data[g])]

\* a load that reports an unparseable file as an existing one
load_state_corrupt_exists(f) ==
    IF f.kind = "absent" THEN <<EmptyState, FALSE>>
    ELSE IF f.kind = "corrupt" THEN <<EmptyState, TRUE>>
    ELSE <<Deserialize(f.data), TRUE>>

\* load_state: <<state, file_existed_and_was_valid>>
load_state(f) ==
    IF f.kind = "absent" THEN <<EmptyState, FALSE>>
    ELSE IF f.kind = "corrupt" THEN <<EmptyState, FALSE>>
    ELSE <<Deserialize(f.data), TRUE>>

SaveOutcomes == {"written", "open_failed", "write_failed"}

\* save_state: the file after the call.  open(filepath, 'w') truncates, so an
\* error raised by the dump leaves a prefix of the document, which no JSON
\* parser accepts.
save_state(f, state, outcome) ==
    IF outcome = "written" THEN ValidFile(Serialize(state))
    ELSE IF outcome = "open_failed" THEN f
    ELSE CorruptFile

----------------------------------------------------------------------------
(* Search adapter *)

\* all:"k1" AND all:"k2" ...
QueryMatches(keywords, r) == \A i \in 1..Len(keywords) : keywords[i] \in r.text

\* SortCriterion.SubmittedDate, SortOrder.Descending
RECURSIVE SortDescending(_)
SortDescending(S) ==
    IF S = {} THEN <<>>
    ELSE LET m == CHOOSE x \in S : \A y \in S : y.published <= x.published
         IN  <<m>> \o SortDescending(S \ {m})

\* What a call to the API may yield before it ends or raises: some of the
\* matching papers published so far, newest first, at most max_results, cut
\* after any number of results when the transport or the parser fails.
ApiResponses(keywords, t) ==
    LET matching == { r \in Catalog : QueryMatches(keywords, r) /\ r.published <= t }
        Capped(S) == SubSeq(SortDescending(S), 1, Min(Cardinality(S), MAX_RESULTS))
    IN  UNION { { [yielded |-> SubSeq(Capped(S), 1, k),
                    failed |-> (k < Len(Capped(S)) \/ f)] :
                      k \in 0..Len(Capped(S)), f \in BOOLEAN } :
                  S \in SUBSET matching }

\* line 104
Cutoff(t, search_timedelta) == t - search_timedelta

\* a filter that looks at the publication time only
IsNewPublishedOnly(r, seen_ids, cutoff) ==
    r.published >= cutoff /\ PaperId(r) \notin seen_ids

\* line 114
IsNew(r, seen_ids, cutoff) ==
    (r.published >= cutoff \/ r.updated >= cutoff) /\ PaperId(r) \notin seen_ids

\* lines 107-120: the loop over the yielded results
RECURSIVE Accept(_, _, _)
Accept(results, seen_ids, cutoff) ==
    IF results = <<>> THEN <<>>
    ELSE (IF IsNew(Head(results), seen_ids, cutoff) THEN <<Head(results)>> ELSE <<>>)
         \o Accept(Tail(results), seen_ids, cutoff)

\* search_new_papers: new_papers is returned after the except clause, whether
\* or not the try block raised
search_new_papers(response, seen_ids, search_timedelta, t) ==
    Accept(response.yielded, seen_ids, Cutoff(t, search_timedelta))

----------------------------------------------------------------------------
(* Notifier *)

SmtpOutcomes == {"sent", "auth_error", "transport_error"}

\* send_email: False when the configuration is incomplete, else what SMTP did
send_email(config_complete, outcome) ==
    IF ~config_complete THEN FALSE ELSE outcome = "sent"

----------------------------------------------------------------------------
(* Orchestrator *)

\* a window chosen per group: 7 days for a group without seen ids
SearchWindowPerGroup(existed, group_seen_ids) ==
    IF ~existed \/ group_seen_ids = {} THEN FIRST_RUN_DAYS * HOURS_PER_DAY
    ELSE CHECK_INTERVAL_HOURS

\* lines 196-200: the window depends on the flag alone, not on the group
SearchWindow(existed, group_seen_ids) ==
    IF ~existed THEN FIRST_RUN_DAYS * HOURS_PER_DAY ELSE CHECK_INTERVAL_HOURS

\* an update that keeps the batch and forgets the seen ids
StateAfterSendReplace(state, group_id, group_seen_ids, newly_found_ids, email_sent) ==
    IF email_sent THEN Put(state, group_id, newly_found_ids) ELSE state

\* an update that does not look at the result of the send
StateAfterSendAlways(state, group_id, group_seen_ids, newly_found_ids, email_sent) ==
    Put(state, group_id, group_seen_ids \cup newly_found_ids)

\* lines 227-232
StateAfterSend(state, group_id, group_seen_ids, newly_found_ids, email_sent) ==
    IF email_sent THEN Put(state, group_id, group_seen_ids \cup newly_found_ids)
    ELSE state

\* lines 227-229
ChangedAfterSend(changed, email_sent) == IF email_sent THEN TRUE ELSE changed

\* a loop that is left when a group's search or send failed
AfterGroupStopOnFailure(i, n, failed) == IF i < n /\ ~failed THEN "search" ELSE "save"

\* the for loop of line 184: where the loop goes after the group at position
\* i of n, whether or not its search or its send failed
AfterGroup(i, n, failed) == IF i < n THEN "search" ELSE "save"

\* a save in every cycle
ShouldSaveAlways(changed) == TRUE

\* line 238
ShouldSave(changed) == changed

\* a cycle that loads and searches without looking at the configuration
NoGroupsNever(groups) == FALSE

\* line 177: if not KEYWORD_GROUPS
NoGroups(groups) == groups = <<>>

NoBatches == [g \in Range(KEYWORD_GROUPS) |-> {}]

NoResults == [g \in Range(KEYWORD_GROUPS) |-> "none"]

NoPrev == [valid |-> FALSE, loaded |-> EmptyState, quiet |-> FALSE,
           failed |-> EmptyState, fresh |-> FALSE]

Init ==
    /\ KEYWORD_GROUPS \in Configs
    /\ mail_config \in BOOLEAN
    /\ file \in InitFiles
    /\ now = 0
    /\ cycle = 0
    /\ pc = "start"
    /\ idx = 0
    /\ current_state = EmptyState
    /\ state_file_existed = FALSE
    /\ state_changed = FALSE
    /\ search_window = 0
    /\ api_results = <<>>
    /\ api_failed = FALSE
    /\ cutoff_date = 0
    /\ new_papers = <<>>
    /\ loaded = EmptyState
    /\ writes = 0
    /\ saved = "none"
    /\ batch = NoBatches
    /\ result = NoResults
    /\ delivered = {}
    /\ prev = NoPrev
    /\ ioFailed = FALSE
    /\ abandoned = FALSE
    /\ loads = 0
    /\ file_at_start = file
    /\ initial_file = file

\* lines 174-181: start of a cycle; load the state unless no group is configured
StartCycle ==
    /\ pc = "start"
    /\ cycle < MaxCycles
    /\ cycle' = cycle + 1
    /\ state_changed' = FALSE
    /\ writes' = 0
    /\ saved' = "none"
    /\ abandoned' = FALSE
    /\ batch' = NoBatches
    /\ result' = NoResults
    /\ api_results' = <<>>
    /\ api_failed' = FALSE
    /\ new_papers' = <<>>
    /\ IF NoGroups(KEYWORD_GROUPS)
       THEN /\ pc' = "sleep"
            /\ loads' = 0
            /\ UNCHANGED <<current_state, state_file_existed, loaded, idx, ioFailed>>
       ELSE /\ loads' = 1
            /\ current_state' = load_state(file)[1]
            /\ state_file_existed' = load_state(file)[2]
            /\ loaded' = load_state(file)[1]
            /\ ioFailed' = (ioFailed \/ file.kind = "corrupt")
            /\ idx' = 1
            /\ pc' = "search"
    /\ delivered' = delivered \cup
         UNION { { <<g, p>> : p \in batch[g] } :
                    g \in { h \in Range(KEYWORD_GROUPS) : result[h] = "sent" } }
    /\ prev' = [valid |-> (cycle > 0 /\ KEYWORD_GROUPS # <<>>),
                loaded |-> loaded,
                quiet |-> (~abandoned /\ \A g \in Range(KEYWORD_GROUPS) : result[g] = "none"),
                failed |-> [g \in Range(KEYWORD_GROUPS) |->
                               IF result[g] = "failed" THEN batch[g] ELSE {}],
                fresh |-> (file_at_start.kind = "absent" /\
                           \A g \in Range(KEYWORD_GROUPS) : result[g] # "sent")]
    /\ file_at_start' = file
    /\ UNCHANGED <<KEYWORD_GROUPS, mail_config, initial_file, file, now, search_window,
                   cutoff_date>>

\* lines 184-205: the group's seen ids, its window and the search
SearchGroup ==
    /\ pc = "search"
    /\ LET group_id == KEYWORD_GROUPS[idx]
           group_seen_ids == Get(current_state, group_id)
           window == SearchWindow(state_file_existed, group_seen_ids)
       IN  \E response \in ApiResponses(GroupKeywords(group_id), now) :
             /\ search_window' = window
             /\ cutoff_date' = Cutoff(now, window)
             /\ api_results' = response.yielded
             /\ api_failed' = response.failed
             /\ new_papers' = search_new_papers(response, group_seen_ids, window, now)
    /\ pc' = "searched"
    /\ UNCHANGED <<KEYWORD_GROUPS, mail_config, initial_file, loads, file_at_start,
                   file, now, cycle, idx, current_state,
                   state_file_existed, state_changed, loaded, writes, saved, batch,
                   result, delivered, prev, ioFailed, abandoned>>

\* lines 234-235: nothing new for this group
NoNewPapers ==
    /\ pc = "searched"
    /\ new_papers = <<>>
    /\ pc' = AfterGroup(idx, Len(KEYWORD_GROUPS), api_failed)
    /\ idx' = idx + 1
    /\ api_results' = <<>>
    /\ api_failed' = FALSE
    /\ UNCHANGED <<KEYWORD_GROUPS, mail_config, initial_file, loads, file_at_start,
                   file, now, cycle, current_state,
                   state_file_existed, state_changed, search_window, cutoff_date,
                   new_papers, loaded, writes, saved, batch, result,
                   delivered, prev, ioFailed, abandoned>>

\* lines 207-232: build the digest, send it, record the ids when it was sent
NotifyGroup ==
    /\ pc = "searched"
    /\ new_papers # <<>>
    /\ \E outcome \in SmtpOutcomes :
         LET group_id == KEYWORD_GROUPS[idx]
             group_seen_ids == Get(current_state, group_id)
             newly_found_ids == PaperIds(new_papers)
             email_sent == send_email(mail_config, outcome)
         IN  /\ current_state' = StateAfterSend(current_state, group_id, group_seen_ids,
                                                newly_found_ids, email_sent)
             /\ state_changed' = ChangedAfterSend(state_changed, email_sent)
             /\ batch' = [batch EXCEPT ![group_id] = newly_found_ids]
             /\ result' = [result EXCEPT ![group_id] =
                              IF email_sent THEN "sent" ELSE "failed"]
             /\ pc' = AfterGroup(idx, Len(KEYWORD_GROUPS), ~email_sent)
    /\ idx' = idx + 1
    /\ api_results' = <<>>
    /\ api_failed' = FALSE
    /\ new_papers' = <<>>
    /\ UNCHANGED <<KEYWORD_GROUPS, mail_config, initial_file, loads, file_at_start,
                   file, now, cycle, state_file_existed,
                   search_window, cutoff_date, loaded, writes, saved, delivered, prev, ioFailed, abandoned>>

\* an exception that ends the process instead of the cycle
UnexpectedErrorFatal ==
    /\ pc = "searched"
    /\ new_papers # <<>>
    /\ abandoned' = TRUE
    /\ pc' = "crashed"
    /\ UNCHANGED <<KEYWORD_GROUPS, mail_config, initial_file, loads, file_at_start,
                   file, now, cycle, idx, current_state, state_file_existed,
                   state_changed, search_window, api_results, api_failed, cutoff_date,
                   new_papers, loaded, writes, saved, batch, result, delivered, prev,
                   ioFailed>>

\* lines 243-245: an exception raised while the digest is formatted or the
\* message object is built (lines 209-221, 135-140) leaves the cycle
UnexpectedError ==
    /\ pc = "searched"
    /\ new_papers # <<>>
    /\ abandoned' = TRUE
    /\ pc' = "sleep"
    /\ api_results' = <<>>
    /\ api_failed' = FALSE
    /\ new_papers' = <<>>
    /\ UNCHANGED <<KEYWORD_GROUPS, mail_config, initial_file, loads, file_at_start,
                   file, now, cycle, idx, current_state,
                   state_file_existed, state_changed, search_window, cutoff_date,
                   loaded, writes, saved, batch, result, delivered,
                   prev, ioFailed>>

\* lines 237-241: save when some group changed the state
SaveIfChanged ==
    /\ pc = "save"
    /\ IF ShouldSave(state_changed)
       THEN \E outcome \in SaveOutcomes :
              /\ file' = save_state(file, current_state, outcome)
              /\ writes' = writes + 1
              /\ saved' = outcome
              /\ ioFailed' = (ioFailed \/ outcome # "written")
       ELSE UNCHANGED <<file, writes, saved, ioFailed>>
    /\ pc' = "sleep"
    /\ UNCHANGED <<KEYWORD_GROUPS, mail_config, initial_file, loads, file_at_start,
                   now, cycle, idx, current_state,
                   state_file_existed, state_changed, search_window, api_results,
                   api_failed, cutoff_date, new_papers, loaded, batch,
                   result, delivered, prev, abandoned>>

\* lines 247-250: wait for the check interval; the cycle itself took some time
Sleep ==
    /\ pc = "sleep"
    /\ \E elapsed \in 0..MaxElapsed :
         now' = now + elapsed + CHECK_INTERVAL_HOURS
    /\ pc' = "start"
    /\ UNCHANGED <<KEYWORD_GROUPS, mail_config, initial_file, loads, file_at_start,
                   file, cycle, idx, current_state,
                   state_file_existed, state_changed, search_window, api_results,
                   api_failed, cutoff_date, new_papers, loaded, writes, saved,
                   batch, result, delivered, prev, ioFailed, abandoned>>

Next ==
    \/ StartCycle
    \/ SearchGroup
    \/ NoNewPapers
    \/ NotifyGroup
    \/ UnexpectedError
    \/ SaveIfChanged
    \/ Sleep

Spec == Init /\ [][Next]_vars

\* The loop is one sequential thread: provided the blocking search, send and
\* sleep calls return, the step that is enabled is taken.
\* The initial states start from a valid state file, or from no state file
\* with an incomplete mail configuration; an unparseable file is reached
\* from the former by a failed write.
FairInit == Init /\ (file.kind = "valid" \/ (file.kind = "absent" /\ ~mail_config))

FairSpec == FairInit /\ [][Next]_vars /\ WF_vars(Next)

----------------------------------------------------------------------------
(* Properties *)

Configured == Range(KEYWORD_GROUPS)

\* the state a load of the file would return
Persisted(f) == load_state(f)[1]

\* ids in ascending order without repetition
IsSorted(ids) == \A i, j \in 1..Len(ids) : i < j => StrLess(ids[i], ids[j])

SomeSent == \E g \in Configured : result[g] = "sent"

\* C1: once a notify for group G whose batch contained p has succeeded, no
\* notify for G in a later cycle has p in its batch, as long as every read
\* and write of the state file succeeded; abandoned cycles included.
C1_AtMostOnceAfterSuccess ==
    ~ioFailed =>
        \A g \in Configured : \A p \in batch[g] : <<g, p>> \notin delivered

\* C2: when the notify for G failed in the previous cycle for a batch that
\* contained p and the API yields p again in this cycle, exactly one check
\* interval later, p is again among the new papers of G.
C2_RetryAfterFailedDelivery ==
    (pc = "searched" /\ prev.valid /\ now = (cycle - 1) * CHECK_INTERVAL_HOURS) =>
        \A r \in Range(api_results) :
            PaperId(r) \in prev.failed[KEYWORD_GROUPS[idx]]
                => r \in Range(new_papers)

\* C3: an id that is in a group's seen set, in memory or in the file, is in
\* it after every step.
C3_SeenSetMonotone ==
    [][ \A g \in DOMAIN current_state \cup DOMAIN Persisted(file) :
          /\ Get(current_state, g) \subseteq Get(current_state', g)
          /\ Get(Persisted(file), g) \subseteq Get(Persisted(file'), g) ]_vars

\* C4: a failed notify for G leaves state[G] as it was loaded, does not mark
\* the cycle dirty, and without a successful group the file is not written.
C4_FailedDeliveryKeepsState ==
    /\ \A g \in Configured :
          result[g] = "failed" => Get(current_state, g) = Get(loaded, g)
    /\ state_changed = SomeSent
    /\ ~SomeSent => (writes = 0 /\ saved = "none")

C4_Witness ==
    /\ pc = "sleep"
    /\ ~SomeSent
    /\ \E g \in Configured :
          result[g] = "failed" /\ batch[g] # {} /\ Get(loaded, g) # {}

\* C5: the window passed to every search is 168 hours when the load of the
\* cycle reported existed = false and 24 hours when it reported true.
C5_WindowSelection ==
    pc = "searched" =>
        /\ state_file_existed = (file.kind = "valid")
        /\ search_window = IF state_file_existed THEN 24 ELSE 168

\* a group without seen ids searched with the 24 hour window
C5_Witness ==
    /\ pc = "searched"
    /\ state_file_existed
    /\ Get(current_state, KEYWORD_GROUPS[idx]) = {}
    /\ search_window = 24

\* C6: a search or notify failure of one group does not stop the loop: every
\* group is processed before the save, the entry of a group changes only by
\* its own successful notify, and the successful groups are saved.
C6_GroupIndependence ==
    /\ pc = "save" => idx = Len(KEYWORD_GROUPS) + 1
    /\ \A g \in Configured :
          Get(current_state, g) =
              IF result[g] = "sent" THEN Get(loaded, g) \cup batch[g]
              ELSE Get(loaded, g)
    /\ (pc = "sleep" /\ ~abandoned /\ SomeSent) =>
          /\ writes = 1
          /\ saved = "written" =>
                \A g \in Configured :
                    result[g] = "sent" =>
                        Get(Persisted(file), g) = Get(loaded, g) \cup batch[g]

\* the first group failed (search raised, or mail not sent) and a later one
\* was mailed and saved
C6_Witness ==
    /\ pc = "sleep"
    /\ Len(KEYWORD_GROUPS) = 2
    /\ result[KEYWORD_GROUPS[1]] = "failed"
    /\ result[KEYWORD_GROUPS[2]] = "sent"
    /\ saved = "written"
    /\ batch[KEYWORD_GROUPS[2]] \subseteq Get(Persisted(file), KEYWORD_GROUPS[2])

\* C7: a search that raised returns no candidates.
C7_SearchFailureYieldsEmpty ==
    (pc = "searched" /\ api_failed) => new_papers = <<>>

\* C8: a yielded record is in the result iff it was published or updated at
\* or after now - window and its id is not in the seen set.
C8_SearchFilter ==
    pc = "searched" =>
        LET seen == Get(current_state, KEYWORD_GROUPS[idx])
            cutoff == now - search_window
        IN  /\ \A r \in Range(api_results) :
                  r \in Range(new_papers) <=>
                      /\ (r.published >= cutoff \/ r.updated >= cutoff)
                      /\ PaperId(r) \notin seen
            /\ Range(new_papers) \subseteq Range(api_results)
            /\ PaperIds(new_papers) \cap seen = {}

\* one paper accepted by its update time alone and one rejected because it
\* was seen
C8_Witness ==
    /\ pc = "searched"
    /\ \E r \in Range(new_papers) :
          r.published < now - search_window /\ r.updated >= now - search_window
    /\ \E r \in Range(api_results) :
          PaperId(r) \in Get(current_state, KEYWORD_GROUPS[idx])

\* C9: a cycle in which no search returned a candidate invokes no notify and
\* writes nothing, and the next cycle loads the state this one loaded.
C9_QuietCycleIdempotent ==
    /\ (pc \in {"save", "sleep"} /\ ~abandoned /\ \A g \in Configured : result[g] = "none")
          => /\ ~state_changed
             /\ pc = "sleep" => (writes = 0 /\ saved = "none")
             /\ current_state = loaded
    /\ (pc = "search" /\ idx = 1 /\ prev.valid /\ prev.quiet)
          => (loaded = prev.loaded /\ current_state = prev.loaded)

C9_Witness ==
    /\ pc = "search"
    /\ idx = 1
    /\ prev.valid
    /\ prev.quiet
    /\ cycle = 3
    /\ loaded # EmptyState

\* C10: the file written by a save loads back as the saved mapping with
\* existed = true, and saving what a valid file loads as gives the same
\* mapping with every list sorted.
C10_SaveLoadRoundTrip ==
    /\ (pc = "sleep" /\ saved = "written") =>
          /\ load_state(file) = <<current_state, TRUE>>
          /\ \A g \in DOMAIN file.data : IsSorted(file.data[g])
    /\ file.kind = "valid" =>
          LET again == save_state(file, Persisted(file), "written")
          IN  /\ load_state(again) = load_state(file)
              /\ DOMAIN again.data = DOMAIN file.data
              /\ \A g \in DOMAIN again.data :
                    IsSorted(again.data[g]) /\ Range(again.data[g]) = Range(file.data[g])

\* a saved mapping with a group without ids and a group with three
C10_Witness ==
    /\ pc = "sleep"
    /\ saved = "written"
    /\ \E g \in DOMAIN current_state : current_state[g] = {}
    /\ \E g \in DOMAIN current_state : Cardinality(current_state[g]) = 3

\* C11: when the state file is absent or unparseable at the load, the load
\* gives the empty mapping with existed = false, every group of the cycle
\* starts from an empty seen set and is searched with the 7 day window.
C11_CorruptOrAbsentIsFirstRun ==
    (pc \in {"search", "searched"} /\ file.kind \in {"absent", "corrupt"}) =>
        /\ loads = 1
        /\ loaded = EmptyState
        /\ ~state_file_existed
        /\ Get(current_state, KEYWORD_GROUPS[idx]) = {}
        /\ pc = "searched" => search_window = 168

\* the second group of a cycle that found an unparseable file
C11_Witness ==
    /\ pc = "searched"
    /\ file.kind = "corrupt"
    /\ idx = 2
    /\ search_window = 168
    /\ new_papers # <<>>

C12_UnknownGroupsPreserved ==
    \A g \in DOMAIN loaded \ Configured :
        /\ g \in DOMAIN current_state
        /\ current_state[g] = loaded[g]
        /\ (pc = "sleep" /\ saved = "written") =>
              /\ g \in DOMAIN file.data
              /\ Range(file.data[g]) = loaded[g]

\* a save of a state with the group of an earlier configuration
C12_Witness ==
    /\ pc = "sleep"
    /\ saved = "written"
    /\ "group_old" \in DOMAIN loaded
    /\ file.data["group_old"] = <<"C">>
    /\ file # file_at_start

\* C13: every step leaves the state file as it was or replaces it by the
\* complete new state, also when the write fails.
C13_AtomicSave ==
    [][ file' = file \/ file' = ValidFile(Serialize(current_state)) ]_vars

\* C15: a notify is invoked only with a non-empty batch without ids of the
\* loaded seen set; after a successful one the group's entry is the loaded
\* seen set plus the batch, the cycle is dirty and a save writes that entry.
C15_SuccessfulDelivery ==
    \A g \in Configured :
        /\ result[g] # "none" =>
              (batch[g] # {} /\ batch[g] \cap Get(loaded, g) = {})
        /\ result[g] = "none" => batch[g] = {}
        /\ result[g] = "sent" =>
              /\ g \in DOMAIN current_state
              /\ current_state[g] = Get(loaded, g) \cup batch[g]
              /\ state_changed
              /\ (pc = "sleep" /\ saved = "written") =>
                    file.data[g] = SortedList(Get(loaded, g) \cup batch[g])

\* seen {A, B}, batch {C}, sent, persisted as [A, B, C]
C15_Witness ==
    /\ pc = "sleep"
    /\ loaded = [g \in {"group_1"} |-> {"A", "B"}]
    /\ batch["group_1"] = {"C"}
    /\ result["group_1"] = "sent"
    /\ saved = "written"
    /\ file.data["group_1"] = <<"A", "B", "C">>

\* C16: a cycle loads the state once, calls save at most once and only after
\* the last group, and calls it iff some notify of the cycle succeeded.
C16_WriteDiscipline ==
    /\ (KEYWORD_GROUPS # <<>> /\ cycle > 0) => loads = 1
    /\ writes <= 1
    /\ writes = 1 => pc \in {"sleep", "start"}
    /\ pc = "sleep" => (writes = 1 <=> SomeSent)

\* C17: without keyword groups a cycle loads nothing, searches nothing,
\* sends nothing, writes nothing and goes from its start to the sleep.
C17_InertWithoutGroups ==
    KEYWORD_GROUPS = <<>> =>
        /\ pc \in {"start", "sleep"}
        /\ loads = 0
        /\ current_state = EmptyState
        /\ search_window = 0
        /\ api_results = <<>>
        /\ new_papers = <<>>
        /\ writes = 0
        /\ saved = "none"
        /\ ~state_changed
        /\ file = file_at_start
        /\ file = initial_file

C17_Witness ==
    /\ KEYWORD_GROUPS = <<>>
    /\ pc = "sleep"
    /\ cycle = 2
    /\ file.kind = "valid"

\* ids mailed successfully to group g, in earlier cycles or in this one
Mailed(g) ==
    { p \in Range(Alphabet) : <<g, p>> \in delivered }
        \cup (IF g \in Configured /\ result[g] = "sent" THEN batch[g] ELSE {})

C19_FirstRunWindowPersists ==
    /\ (file_at_start.kind = "absent" /\ ~SomeSent) => file.kind = "absent"
    /\ (pc \in {"search", "searched"} /\ prev.valid /\ prev.fresh) =>
          (~state_file_existed /\ (pc = "searched" => search_window = 168))
    /\ (pc = "searched" /\ initial_file.kind = "absent" /\ search_window = 24) =>
          delivered # {}

\* the second cycle of a process that started without a file and whose
\* first cycle failed to mail
C19_Witness ==
    /\ pc = "searched"
    /\ cycle = 2
    /\ prev.valid
    /\ prev.fresh
    /\ \E g \in Configured : prev.failed[g] # {}
    /\ search_window = 168
    /\ new_papers # <<>>

====
